---- MODULE Spec2Model ----
(***************************************************************************)
(* Model of streamlit_app.py ("Voice test"): a Streamlit script that is    *)
(* re-run top to bottom on every widget event.  One run of the script is   *)
(* a "pass"; between passes the session sits idle and only the session     *)
(* state (transcribed_text), the widget values held by the front end and   *)
(* the files on disk survive.  Texts are sequences of one-character        *)
(* strings so that strip(), join() and concatenation are computed.         *)
(***************************************************************************)
EXTENDS Integers, Sequences, FiniteSets, TLC

VARIABLES
    transcribed_text,   \* st.session_state.transcribed_text
    engine,             \* value of the "STT Engine" selectbox
    vosk_model_path,    \* value of the "Vosk model directory" text input
    env,                \* process facts fixed at import time (optional imports, VOSK_MODEL_PATH)
    micValue,           \* value the mic_recorder component holds (key="mic")
    recording,          \* the component's front end is capturing sound
    renderedValue,      \* value= argument of the text_area rendered by the last pass
    userEdit,           \* what the user typed into that text_area, not yet delivered
    event,              \* the widget event delivered to the running pass
    pc,                 \* position of the running pass, "idle" between passes
    text,               \* local variable text
    tmp_path,           \* local variable tmp_path
    frames,             \* len(frames) on the Vosk path
    bioPos,             \* read position of bio = io.BytesIO(frames)
    chunk,              \* len(chunk)
    msgs,               \* status elements shown by the running / last pass
    fs,                 \* files written by the program: path -> content
    lastAction,         \* history: the user action that started the last pass
    textBefore,         \* history: transcribed_text when that action was taken
    applyCount          \* history: times the held recording was put into transcribed_text

vars == << transcribed_text, engine, vosk_model_path, env, micValue, recording,
           renderedValue, userEdit, event, pc, text, tmp_path, frames, bioPos,
           chunk, msgs, fs, lastAction, textBefore, applyCount >>

\* ---------------------------------------------------------------- bounds
MaxTextLen == 3      \* user actions stop once the editor holds more characters
MaxScratch == 3      \* user actions stop once a pass could exceed this many files
MaxChunks  == 2      \* longest PCM buffer, in chunks

\* ------------------------------------------------------ program constants
ChunkSize == 4000
MicKey == "mic"
FasterWhisper == "Faster-Whisper (recommended)"
Vosk == "Vosk (offline)"
Engines == {FasterWhisper, Vosk}
Separator == <<"\n", "\n">>
LogPath == "msg/chat.txt"

\* ------------------------------------------------------------ pure helpers
Whitespace == {" ", "\n", "\t"}

RECURSIVE LStrip(_)
LStrip(s) == IF s # <<>> /\ Head(s) \in Whitespace THEN LStrip(Tail(s)) ELSE s

RECURSIVE RStrip(_)
RStrip(s) ==
    IF s # <<>> /\ s[Len(s)] \in Whitespace
    THEN RStrip(SubSeq(s, 1, Len(s) - 1))
    ELSE s

\* Variant: the result is used without .strip().
Strip_Omitted(s) == s

\* str.strip()
Strip(s) == RStrip(LStrip(s))

RECURSIVE Join(_, _)
\* sep.join(parts)
Join(parts, sep) ==
    IF parts = <<>> THEN <<>>
    ELSE IF Len(parts) = 1 THEN parts[1]
    ELSE parts[1] \o sep \o Join(Tail(parts), sep)

\* text = " ".join(parts).strip()
WhisperText(segs) == Strip(Join(segs, <<" ">>))

\* text = (res.get("text") or "").strip()
VoskText(res) == Strip(IF res.hasText /\ res.text # <<>> THEN res.text ELSE <<>>)

\* rec.FinalResult(): the recognizer's JSON for the audio fed to it
FinalResult(a) ==
    IF a.segs = <<>> THEN [hasText |-> FALSE, text |-> <<>>]
    ELSE [hasText |-> TRUE, text |-> Join(a.segs, <<" ">>)]

\* wf.readframes(wf.getnframes()) followed by the 16-bit mono conversion
PcmLen(a) ==
    LET raw  == a.nframes * a.nchannels * a.sampwidth
        mono == IF a.nchannels = 2 THEN raw \div 2 ELSE raw
    IN  IF a.sampwidth # 2 THEN (mono \div a.sampwidth) * 2 ELSE mono

\* bio.read(4000)
ReadLen(len, pos) == IF len - pos < ChunkSize THEN len - pos ELSE ChunkSize

IsDir(p) == p = "/models/en-in"

\* ------------------------------------------------------------ input sets
SegLists ==
    { <<>>,
      << <<" ">> >>,
      << <<"a">> >>,
      << <<" ", "a">>, <<"b", " ">> >> }

WavShapes ==
    { [nchannels |-> 1, sampwidth |-> 2, nframes |-> 0],
      [nchannels |-> 2, sampwidth |-> 2, nframes |-> (ChunkSize \div 2) + 1],
      [nchannels |-> 1, sampwidth |-> 1, nframes |-> (MaxChunks * ChunkSize) \div 2] }

NoAudio ==
    [present |-> FALSE, hasBytes |-> FALSE, segs |-> <<>>,
     nchannels |-> 1, sampwidth |-> 2, nframes |-> 0]

Recordings ==
    { [present |-> TRUE, hasBytes |-> TRUE, segs |-> s,
       nchannels |-> w.nchannels, sampwidth |-> w.sampwidth, nframes |-> w.nframes]
        : s \in SegLists, w \in WavShapes }
    \cup { [NoAudio EXCEPT !.present = TRUE] }

EditTexts == { <<>>, <<"x">> }
PathInputs == { "", "/no/such/dir", "/models/en-in" }
NoEdit == [pending |-> FALSE, value |-> <<>>]
NoFiles == [p \in {} |-> "RIFF"]

\* ------------------------------------------------------------ initial state
Init ==
    /\ transcribed_text = <<>>
    /\ engine = FasterWhisper
    /\ env \in [WhisperModel : BOOLEAN, mic_recorder : BOOLEAN, HAS_VOSK : BOOLEAN,
                VOSK_MODEL_PATH : {"", "/models/en-in"}]
    /\ vosk_model_path = env.VOSK_MODEL_PATH
    /\ micValue = NoAudio
    /\ recording = FALSE
    /\ renderedValue = <<>>
    /\ userEdit = NoEdit
    /\ event = "none"
    /\ pc = "idle"
    /\ text = <<>>
    /\ tmp_path = ""
    /\ frames = 0
    /\ bioPos = 0
    /\ chunk = 0
    /\ msgs = {}
    /\ fs = NoFiles
    /\ lastAction = "none"
    /\ textBefore = <<>>
    /\ applyCount = 0

\* ------------------------------------------------------------ user actions
\* The user acts only between passes; the bounds stop the session growing.
CanAct ==
    /\ pc = "idle"
    /\ Len(transcribed_text) <= MaxTextLen
    /\ Cardinality(DOMAIN fs) + 2 <= MaxScratch

\* A widget event starts one run of the script.
StartPass(ev) ==
    /\ pc' = "script"
    /\ event' = ev
    /\ msgs' = {}
    /\ lastAction' = ev
    /\ textBefore' = transcribed_text

\* "Start recording" in the capture widget: the front end starts capturing;
\* nothing is sent to the script and no session state is touched.
StartRecording ==
    /\ CanAct
    /\ env.mic_recorder
    /\ ~recording
    /\ recording' = TRUE
    /\ lastAction' = "start"
    /\ textBefore' = transcribed_text
    /\ UNCHANGED << transcribed_text, engine, vosk_model_path, env, micValue,
                    renderedValue, userEdit, event, pc, text, tmp_path, frames,
                    bioPos, chunk, msgs, fs, applyCount >>

\* "Stop": the component's value becomes the new recording and a pass starts.
StopRecording ==
    /\ CanAct
    /\ recording
    /\ \E a \in Recordings : micValue' = a
    /\ recording' = FALSE
    /\ applyCount' = 0
    /\ StartPass("mic")
    /\ UNCHANGED << transcribed_text, engine, vosk_model_path, env, renderedValue,
                    userEdit, text, tmp_path, frames, bioPos, chunk, fs >>

\* The user picks the other engine.  The Vosk directory input is rendered only
\* on the Vosk branch, so it comes back with its default value.
ChangeEngine ==
    /\ CanAct
    /\ \E e \in Engines \ {engine} : engine' = e
    /\ vosk_model_path' = env.VOSK_MODEL_PATH
    /\ StartPass("sidebar")
    /\ UNCHANGED << transcribed_text, env, micValue, recording, renderedValue,
                    userEdit, text, tmp_path, frames, bioPos, chunk, fs, applyCount >>

\* The user picks another Whisper model size or compute type: a pass starts
\* and nothing the model keeps changes.
ChangeWhisperSetting ==
    /\ CanAct
    /\ engine = FasterWhisper
    /\ StartPass("sidebar")
    /\ UNCHANGED << transcribed_text, engine, vosk_model_path, env, micValue, recording,
                    renderedValue, userEdit, text, tmp_path, frames, bioPos, chunk, fs,
                    applyCount >>

\* The user types a Vosk model directory.
SetVoskPath ==
    /\ CanAct
    /\ engine = Vosk
    /\ \E p \in PathInputs \ {vosk_model_path} : vosk_model_path' = p
    /\ StartPass("sidebar")
    /\ UNCHANGED << transcribed_text, engine, env, micValue, recording, renderedValue,
                    userEdit, text, tmp_path, frames, bioPos, chunk, fs, applyCount >>

\* The user edits the transcript text area.
EditText ==
    /\ CanAct
    /\ \E t \in EditTexts \ {transcribed_text} :
          userEdit' = [pending |-> TRUE, value |-> t]
    /\ StartPass("edit")
    /\ UNCHANGED << transcribed_text, engine, vosk_model_path, env, micValue, recording,
                    renderedValue, text, tmp_path, frames, bioPos, chunk, fs, applyCount >>

PressSubmit ==
    /\ CanAct
    /\ StartPass("submit")
    /\ UNCHANGED << transcribed_text, engine, vosk_model_path, env, micValue, recording,
                    renderedValue, userEdit, text, tmp_path, frames, bioPos, chunk, fs,
                    applyCount >>

PressClear ==
    /\ CanAct
    /\ StartPass("clear")
    /\ UNCHANGED << transcribed_text, engine, vosk_model_path, env, micValue, recording,
                    renderedValue, userEdit, text, tmp_path, frames, bioPos, chunk, fs,
                    applyCount >>

\* ------------------------------------------------------- steps of one pass
passFrame == << engine, vosk_model_path, env, micValue, recording, lastAction, textBefore >>

\* Variant: the handler closes the try too early, so that the code storing
\* the result still runs after an exception.
Raise_FallsThrough ==
    /\ msgs' = msgs \cup {"exception"}
    /\ pc' = "apply"

\* except Exception as e: st.exception(e); control falls to the editor.
\* The file indents this clause deeper than any open block; it is read as the
\* handler of the one try it can close, the try around the engine calls and
\* the storing of the result.
Raise ==
    /\ msgs' = msgs \cup {"exception"}
    /\ pc' = "editor"

\* Session-state default, the capture widget and the test of what it returned.
RunRecorder ==
    /\ pc = "script"
    /\ IF ~env.mic_recorder
       THEN /\ msgs' = msgs \cup {"warning"}
            /\ pc' = "editor"
            /\ text' = text
       ELSE IF micValue.present /\ micValue.hasBytes
       THEN /\ pc' = "transcribe"
            /\ text' = <<>>
            /\ msgs' = msgs
       ELSE /\ pc' = "editor"
            /\ UNCHANGED << text, msgs >>
    /\ UNCHANGED << transcribed_text, renderedValue, userEdit, event, tmp_path, frames,
                    bioPos, chunk, fs, applyCount >>
    /\ UNCHANGED passFrame

\* The selected engine is not usable: st.error, and text stays "".
EngineUnavailable ==
    /\ pc = "transcribe"
    /\ \/ engine = FasterWhisper /\ ~env.WhisperModel
       \/ engine = Vosk /\ (~env.HAS_VOSK \/ vosk_model_path = "" \/ ~IsDir(vosk_model_path))
    /\ msgs' = msgs \cup {"error"}
    /\ pc' = "apply"
    /\ UNCHANGED << transcribed_text, renderedValue, userEdit, event, text, tmp_path,
                    frames, bioPos, chunk, fs, applyCount >>
    /\ UNCHANGED passFrame

\* tempfile.NamedTemporaryFile(suffix=".wav", delete=False): a fresh name.
FreshTemp == "/tmp/tmp" \o ToString(Cardinality(DOMAIN fs)) \o ".wav"

\* The WAV bytes are saved to a scratch file.
FwSaveTemp ==
    /\ pc = "transcribe"
    /\ engine = FasterWhisper
    /\ env.WhisperModel
    /\ tmp_path' = FreshTemp
    /\ fs' = [p \in DOMAIN fs \cup {FreshTemp} |-> IF p = FreshTemp THEN "RIFF" ELSE fs[p]]
    /\ pc' = "fw_run"
    /\ UNCHANGED << transcribed_text, renderedValue, userEdit, event, text, frames,
                    bioPos, chunk, msgs, applyCount >>
    /\ UNCHANGED passFrame

\* WhisperModel(...), model.transcribe(...), the segment loop, join/strip and
\* os.remove.  The constructor, transcribe or the lazy segment iterator may raise.
\* os.remove of the file the pass has just written is taken to succeed.
FwRun ==
    /\ pc = "fw_run"
    /\ \/ /\ Raise
          /\ UNCHANGED << text, fs >>
       \/ /\ text' = WhisperText(micValue.segs)
          /\ fs' = [p \in DOMAIN fs \ {tmp_path} |-> fs[p]]
          /\ pc' = "apply"
          /\ msgs' = msgs
    /\ UNCHANGED << transcribed_text, renderedValue, userEdit, event, tmp_path, frames,
                    bioPos, chunk, applyCount >>
    /\ UNCHANGED passFrame

\* wave.open, the PCM conversion, vosk.Model / KaldiRecognizer and the first
\* bio.read(4000).  Reading the WAV or loading the model may raise.
VoskOpen ==
    /\ pc = "transcribe"
    /\ engine = Vosk
    /\ env.HAS_VOSK
    /\ vosk_model_path # ""
    /\ IsDir(vosk_model_path)
    /\ \/ /\ Raise
          /\ UNCHANGED << frames, bioPos, chunk >>
       \/ /\ frames' = PcmLen(micValue)
          /\ chunk' = ReadLen(PcmLen(micValue), 0)
          /\ bioPos' = ReadLen(PcmLen(micValue), 0)
          /\ pc' = "vosk_feed"
          /\ msgs' = msgs
    /\ UNCHANGED << transcribed_text, renderedValue, userEdit, event, text, tmp_path,
                    fs, applyCount >>
    /\ UNCHANGED passFrame

\* Variant: the buffer is rewound when a read reaches its end.
VoskFeed_Rewinds ==
    /\ pc = "vosk_feed"
    /\ chunk # 0
    /\ \/ /\ Raise
          /\ UNCHANGED << bioPos, chunk >>
       \/ /\ chunk' = ReadLen(frames, bioPos % frames)
          /\ bioPos' = (bioPos % frames) + ReadLen(frames, bioPos % frames)
          /\ UNCHANGED << pc, msgs >>
    /\ UNCHANGED << transcribed_text, renderedValue, userEdit, event, text, tmp_path,
                    frames, fs, applyCount >>
    /\ UNCHANGED passFrame

\* One iteration of "while chunk:"; rec.AcceptWaveform may raise.
VoskFeed ==
    /\ pc = "vosk_feed"
    /\ chunk # 0
    /\ \/ /\ Raise
          /\ UNCHANGED << bioPos, chunk >>
       \/ /\ chunk' = ReadLen(frames, bioPos)
          /\ bioPos' = bioPos + ReadLen(frames, bioPos)
          /\ UNCHANGED << pc, msgs >>
    /\ UNCHANGED << transcribed_text, renderedValue, userEdit, event, text, tmp_path,
                    frames, fs, applyCount >>
    /\ UNCHANGED passFrame

\* The loop has ended: res = json.loads(rec.FinalResult()) and the strip.
VoskFinish ==
    /\ pc = "vosk_feed"
    /\ chunk = 0
    /\ text' = VoskText(FinalResult(micValue))
    /\ pc' = "apply"
    /\ UNCHANGED << transcribed_text, renderedValue, userEdit, event, tmp_path, frames,
                    bioPos, chunk, msgs, fs, applyCount >>
    /\ UNCHANGED passFrame

\* Variant: the result replaces what the editor held.
Applied_Replaces(old, t) == t

\* The value "if text:" stores into the session state.
Applied(old, t) == IF old # <<>> THEN old \o Separator \o t ELSE t

\* if text: ... st.success(...)  else: st.info(...)
Apply ==
    /\ pc = "apply"
    /\ IF text # <<>>
       THEN /\ transcribed_text' = Applied(transcribed_text, text)
            /\ msgs' = msgs \cup {"success"}
            /\ applyCount' = IF applyCount < 2 THEN applyCount + 1 ELSE applyCount
       ELSE /\ msgs' = msgs \cup {"info"}
            /\ UNCHANGED << transcribed_text, applyCount >>
    /\ pc' = "editor"
    /\ UNCHANGED << renderedValue, userEdit, event, text, tmp_path, frames, bioPos,
                    chunk, fs >>
    /\ UNCHANGED passFrame

\* What st.text_area(value=v) returns: a text area is identified by its
\* arguments, so what the user typed counts only while value= is unchanged.
TextArea(v) == IF userEdit.pending /\ v = renderedValue THEN userEdit.value ELSE v

\* st.session_state.transcribed_text = st.text_area(...)
Editor ==
    /\ pc = "editor"
    /\ transcribed_text' = TextArea(transcribed_text)
    /\ renderedValue' = transcribed_text
    /\ userEdit' = NoEdit
    /\ pc' = "buttons"
    /\ UNCHANGED << event, text, tmp_path, frames, bioPos, chunk, msgs, fs, applyCount >>
    /\ UNCHANGED passFrame

\* The script's locals do not outlive the run.
EndPass ==
    /\ pc' = "idle"
    /\ event' = "none"
    /\ text' = <<>>
    /\ tmp_path' = ""
    /\ frames' = 0
    /\ bioPos' = 0
    /\ chunk' = 0

\* if st.button("Submit"): st.success(...)
Submit ==
    /\ pc = "buttons"
    /\ event = "submit"
    /\ msgs' = msgs \cup {"submitted"}
    /\ EndPass
    /\ UNCHANGED << transcribed_text, renderedValue, userEdit, fs, applyCount >>
    /\ UNCHANGED passFrame

\* if st.button("Clear editor"): transcribed_text = ""; st.rerun()
Clear ==
    /\ pc = "buttons"
    /\ event = "clear"
    /\ transcribed_text' = <<>>
    /\ pc' = "script"
    /\ event' = "none"
    /\ msgs' = {}
    /\ text' = <<>>
    /\ tmp_path' = ""
    /\ frames' = 0
    /\ bioPos' = 0
    /\ chunk' = 0
    /\ UNCHANGED << renderedValue, userEdit, fs, applyCount >>
    /\ UNCHANGED passFrame

\* Neither button fired: the run ends after the caption.
Finish ==
    /\ pc = "buttons"
    /\ event \notin {"submit", "clear"}
    /\ EndPass
    /\ UNCHANGED << transcribed_text, renderedValue, userEdit, msgs, fs, applyCount >>
    /\ UNCHANGED passFrame

UserAction ==
    \/ StartRecording
    \/ StopRecording
    \/ ChangeEngine
    \/ ChangeWhisperSetting
    \/ SetVoskPath
    \/ EditText
    \/ PressSubmit
    \/ PressClear

PassStep ==
    \/ RunRecorder
    \/ EngineUnavailable
    \/ FwSaveTemp
    \/ FwRun
    \/ VoskOpen
    \/ VoskFeed
    \/ VoskFinish
    \/ Apply
    \/ Editor
    \/ Submit
    \/ Clear
    \/ Finish

Next == UserAction \/ PassStep

Spec == Init /\ [][Next]_vars

\* A started run of the script runs to its end: there is nothing to wait for.
FairSpec == Spec /\ WF_vars(PassStep)

TypeOK ==
    /\ pc \in {"idle", "script", "transcribe", "fw_run", "vosk_feed", "apply", "editor", "buttons"}
    /\ engine \in Engines
    /\ event \in {"none", "mic", "sidebar", "edit", "submit", "clear"}
    /\ msgs \subseteq {"warning", "error", "info", "success", "exception", "submitted"}
    /\ bioPos \in 0..frames
    /\ applyCount \in 0..2

\* ------------------------------------------------------------------ claims
EnginePcs == {"transcribe", "fw_run", "vosk_feed"}

AllWhite(s) == \A i \in 1..Len(s) : s[i] \in Whitespace

\* The step that stores a non-empty trimmed result.
Accepting == pc = "apply" /\ text # <<>>

\* C1 (as stated): accepting a non-empty trimmed result t leaves
\* transcribed_text exactly equal to t, whatever it held before, and the
\* result is reported as accepted.
C1_LatestReplaces ==
    [][Accepting => (transcribed_text' = text /\ "success" \in msgs')]_vars

\* C1 (amended): accepting a non-empty trimmed result t leaves
\* transcribed_text equal to t when it was empty, and to its previous value
\* followed by a blank line and t otherwise; the result is reported as accepted.
C1_AppendsAfterBlankLine ==
    [][Accepting =>
         /\ transcribed_text' =
               IF transcribed_text = <<>> THEN text
               ELSE transcribed_text \o <<"\n", "\n">> \o text
         /\ "success" \in msgs']_vars

C1_Witness ==
    /\ pc = "editor"
    /\ "success" \in msgs
    /\ text = <<"a", " ", "b">>
    /\ transcribed_text = <<"a", "\n", "\n", "a", " ", "b">>

\* C2: no step of the engine part of the transcription changes
\* transcribed_text, and an exception raised there is displayed and leaves
\* the step at once, without reaching the code that stores a result.
C2_FailureKeepsText ==
    [][(pc \in EnginePcs) =>
         /\ transcribed_text' = transcribed_text
         /\ ("exception" \in msgs' => pc' = "editor")]_vars

C2_Witness ==
    /\ pc = "editor"
    /\ "exception" \in msgs
    /\ transcribed_text # <<>>
    /\ engine = Vosk
    /\ bioPos > 0

\* C3: once a pass is back at idle no scratch WAV file exists, on the
\* success, empty-result and exception paths alike.
C3_ScratchRemoved == pc = "idle" => DOMAIN fs = {}

\* C4: when the engine ran and what it returned is empty or only whitespace
\* (an empty segment list included), the storing step leaves transcribed_text
\* unchanged and shows the informational message and nothing else.
C4_EmptyKeepsText ==
    [][(/\ pc = "apply"
        /\ "error" \notin msgs
        /\ AllWhite(Join(micValue.segs, <<" ">>))) =>
         /\ transcribed_text' = transcribed_text
         /\ msgs' = msgs \cup {"info"}
         /\ "success" \notin msgs']_vars

C4_Witness ==
    /\ pc = "editor"
    /\ msgs = {"info"}
    /\ micValue.segs = << <<" ">> >>
    /\ transcribed_text # <<>>

\* C5: when the pass started by "Clear editor" (and the rerun it asks for)
\* is back at idle, transcribed_text is empty.
C5_ClearEmpties == (pc = "idle" /\ lastAction = "clear") => transcribed_text = <<>>

\* C6: when the pass started by "Submit" is back at idle, transcribed_text
\* is what it was when the button was pressed.
C6_SubmitNoOp == (pc = "idle" /\ lastAction = "submit") => transcribed_text = textBefore

\* C7: starting a new recording empties transcribed_text and gives the
\* capture widget a key it did not have before.
C7_StartResets ==
    [][StartRecording => (transcribed_text' = <<>> /\ MicKey' # MicKey)]_vars

\* C8: every accepted transcription is appended to the session log: the log
\* file exists afterwards and is its former content (the header line, if it
\* did not exist) followed by the accepted text.
C8_AcceptedLogged ==
    [][Accepting =>
         /\ LogPath \in DOMAIN fs'
         /\ fs'[LogPath] =
               Append(IF LogPath \in DOMAIN fs THEN fs[LogPath] ELSE <<"header">>, text)]_vars

\* C9: every pass that enters the transcription step returns to idle.
C9_ReturnsToIdle == (pc = "transcribe") ~> (pc = "idle")

C9_Witness ==
    /\ pc = "vosk_feed"
    /\ bioPos > ChunkSize
    /\ chunk = 0

\* C10: the recording the capture widget holds is put into transcribed_text
\* at most once.
C10_AppliedOnce == applyCount <= 1

====
